---- MODULE Spec2Model ----
(***************************************************************************)
(* Render dispatch subsystem of the TGS converter server:                  *)
(*   - AnimationCache  (utils/cache.js): reference counted LRU/TTL cache   *)
(*   - RenderPool      (utils/renderer.js): worker-thread pool, FIFO queue *)
(*   - POST /convert   (server.js): cache get/set/release around a render  *)
(***************************************************************************)
EXTENDS Integers, Sequences, FiniteSets, TLC

\* ------------------------------------------------------------------ bounds
\* cache keys (16 hex digit content hashes in the program)
Slugs == {"a", "b", "c"}
\* parsed animation documents
Docs == {"d1", "d2"}
\* cache capacity (constructor argument maxSize)
maxSize == 2
\* time to live in clock ticks (constructor argument ttlMs)
ttlMs == 1
\* the clock runs from 0 to MaxTime
MaxTime == 2
\* number of cache operations in a run of the cache alone
MaxCalls == 4
\* number of worker slots (constructor argument poolSize)
poolSize == 1
\* number of worker slots of the server's pool (environment WORKER_POOL_SIZE)
WORKER_POOL_SIZE == 1
\* number of cleanup timer firings and POST /cache/clear requests in a run
\* of the server
MaxAdmin == 1
\* number of renderFrame calls in a run of the pool alone
MaxTasks == 3
\* number of POST /convert requests in a run of the server
MaxReq == 3
\* number of worker failures in a run
MaxCrashes == 1
\* number of requests in a run of the server with both conversion endpoints
MaxPathReq == 2
\* largest in-point and out-point (ip, op) of a document given to the worker
MaxOp == 3
\* largest magnitude of the frame number of a render message
MaxFrameNumber == 3
\* exit codes a worker thread ends with
ExitCodes == {0, 1}

\* the null slug of evictLRU (no entry chosen)
null == "null"
\* the null of workerContext.currentTask (task ids start at 1)
noTask == 0
\* larger than every timestamp: the initial oldestTime of evictLRU
Infinity == MaxTime + 1

VARIABLES
  cache,      \* AnimationCache.cache: the entries in Map insertion order
  hits,       \* AnimationCache.hits
  misses,     \* AnimationCache.misses
  now,        \* Date.now()
  lastOp,     \* history: the cache operation performed by the last step
  lastArg,    \* history: the slug that operation was called with
  lastResult, \* history: what the last get returned; after a set, the
              \* document and metadata it was called with
  removed,    \* history: the entries the last step took out of the map
  calls       \* history: number of direct cache operations so far

cacheVars == <<cache, hits, misses, now, lastOp, lastArg, lastResult, removed,
               calls>>

VARIABLES
  ctx,              \* every workerContext created so far, by creation index
  workers,          \* RenderPool.workers: indices into ctx
  availableWorkers, \* RenderPool.availableWorkers: indices into ctx
  taskQueue,        \* RenderPool.taskQueue: task ids
  totalTasks,       \* RenderPool.totalTasks; the id of the newest task
  completedTasks,   \* RenderPool.completedTasks
  failedTasks,      \* RenderPool.failedTasks
  rlottieStatus,    \* RenderPool.rlottieStatus.mode
  thread,           \* the worker thread behind each context
  promise,          \* per task: how often resolve and reject were invoked
  dispatchLog,      \* history: the (task, context) pairs in dispatch order
  crashes,          \* history: number of worker failures so far
  heldAtCrash,      \* history: tasks a worker held when its thread died
  afterCrash,       \* history: tasks queued at a failure or submitted later
  shutting,         \* where shutdown() stands: "no", "called", "done"
  targets,          \* the contexts whose terminate() shutdown() awaits
  abandoned         \* history: tasks in the queue when shutdown() was called

shutVars == <<shutting, targets, abandoned>>

poolVars == <<ctx, workers, availableWorkers, taskQueue, totalTasks,
              completedTasks, failedTasks, rlottieStatus, thread, promise,
              dispatchLog, crashes, heldAtCrash, afterCrash, shutVars>>

VARIABLES
  req               \* the conversion requests: where each handler stands,
                    \* what it was sent and, as history, what its cache
                    \* lookup did and whether the cache was cleared since

VARIABLES
  call              \* the worker's processRenderTask call under study: the
                    \* message data, the rendering mode and, once it ran,
                    \* the frame index given to the renderer and the
                    \* encoder invocation

vars == <<cacheVars, poolVars, req, call>>

\* ------------------------------------------------------- AnimationCache
\* position of slug in the map, 0 when absent
indexOf(c, slug) ==
  IF \E i \in 1..Len(c) : c[i].slug = slug
  THEN CHOOSE i \in 1..Len(c) : c[i].slug = slug
  ELSE 0

has(c, slug) == indexOf(c, slug) # 0

\* Map.delete
delete(c, slug) ==
  LET i == indexOf(c, slug)
  IN  IF i = 0 THEN c ELSE SubSeq(c, 1, i - 1) \o SubSeq(c, i + 1, Len(c))

\* mutant: the scan that takes the first unreferenced entry, whatever its age
RECURSIVE evictScan_first(_, _, _, _)
evictScan_first(c, i, oldestSlug, oldestTime) ==
  IF i > Len(c) THEN oldestSlug
  ELSE IF c[i].refCount > 0 \/ oldestSlug # null
       THEN evictScan_first(c, i + 1, oldestSlug, oldestTime)
       ELSE evictScan_first(c, i + 1, c[i].slug, c[i].lastAccessed)

\* the loop of evictLRU: entries in insertion order, referenced ones skipped,
\* strict < so that the first of several equally old entries is kept as choice
RECURSIVE evictScan(_, _, _, _)
evictScan(c, i, oldestSlug, oldestTime) ==
  IF i > Len(c) THEN oldestSlug
  ELSE IF c[i].refCount > 0 THEN evictScan(c, i + 1, oldestSlug, oldestTime)
  ELSE IF c[i].lastAccessed < oldestTime
       THEN evictScan(c, i + 1, c[i].slug, c[i].lastAccessed)
       ELSE evictScan(c, i + 1, oldestSlug, oldestTime)

\* mutant: the scan without the refCount test
RECURSIVE evictScanAny(_, _, _, _)
evictScanAny(c, i, oldestSlug, oldestTime) ==
  IF i > Len(c) THEN oldestSlug
  ELSE IF c[i].lastAccessed < oldestTime
       THEN evictScanAny(c, i + 1, c[i].slug, c[i].lastAccessed)
       ELSE evictScanAny(c, i + 1, oldestSlug, oldestTime)

evictLRU_unguarded(c) ==
  LET oldestSlug == evictScanAny(c, 1, null, Infinity)
  IN  IF oldestSlug # null THEN delete(c, oldestSlug) ELSE c

evictLRU(c) ==
  LET oldestSlug == evictScan(c, 1, null, Infinity)
  IN  IF oldestSlug # null THEN delete(c, oldestSlug) ELSE c

\* the entry object of set: the document and the four metadata fields
newEntry(slug, animationData, metadata, t) ==
  [slug |-> slug, animationData |-> animationData,
   width |-> metadata.width, height |-> metadata.height,
   totalFrames |-> metadata.totalFrames, frameRate |-> metadata.frameRate,
   refCount |-> 1, accessCount |-> 1, createdAt |-> t, lastAccessed |-> t]

\* mutant: set that keeps the entry of a key it already holds
set_keepsExisting(c, slug, animationData, metadata, t) ==
  IF has(c, slug) THEN c
  ELSE Append(IF Len(c) >= maxSize THEN evictLRU(c) ELSE c,
              newEntry(slug, animationData, metadata, t))

\* mutant: set that refuses the insertion when nothing could be evicted
set_refusesWhenFull(c, slug, animationData, metadata, t) ==
  LET c1 == IF Len(c) >= maxSize /\ ~has(c, slug) THEN evictLRU(c) ELSE c
      i  == indexOf(c1, slug)
      e  == newEntry(slug, animationData, metadata, t)
  IN  IF i # 0 THEN [c1 EXCEPT ![i] = e]
      ELSE IF Len(c1) >= maxSize THEN c1
      ELSE Append(c1, e)

\* mutant: set that evicts at capacity whether or not it holds the key
set_evictsWhenFull(c, slug, animationData, metadata, t) ==
  LET c1 == IF Len(c) >= maxSize THEN evictLRU(c) ELSE c
      i  == indexOf(c1, slug)
      e  == newEntry(slug, animationData, metadata, t)
  IN  IF i = 0 THEN Append(c1, e) ELSE [c1 EXCEPT ![i] = e]

\* set: evict when at capacity and the key is new, then Map.set (an existing
\* key keeps its position in the iteration order)
set(c, slug, animationData, metadata, t) ==
  LET c1 == IF Len(c) >= maxSize /\ ~has(c, slug) THEN evictLRU(c) ELSE c
      i  == indexOf(c1, slug)
      e  == newEntry(slug, animationData, metadata, t)
  IN  IF i = 0 THEN Append(c1, e) ELSE [c1 EXCEPT ![i] = e]

\* the null returned by get
nullResult ==
  [found |-> FALSE, animationData |-> "none",
   metadata |-> [width |-> 0, height |-> 0, totalFrames |-> 0,
                 frameRate |-> 0]]

\* mutant: get that measures the age from the last access
get_expiresByAccess(c, slug, t) ==
  LET i == indexOf(c, slug)
  IN  IF i = 0
      THEN [cache |-> c, result |-> nullResult, hit |-> FALSE]
      ELSE IF t - c[i].lastAccessed > ttlMs
      THEN [cache |-> delete(c, slug), result |-> nullResult, hit |-> FALSE]
      ELSE [cache |-> [c EXCEPT ![i].refCount = @ + 1,
                                ![i].lastAccessed = t,
                                ![i].accessCount = @ + 1],
            result |-> [found |-> TRUE,
                        animationData |-> c[i].animationData,
                        metadata |-> [width |-> c[i].width,
                                      height |-> c[i].height,
                                      totalFrames |-> c[i].totalFrames,
                                      frameRate |-> c[i].frameRate]],
            hit |-> TRUE]

\* get: the map after the call, the returned value and the counter it bumps
get(c, slug, t) ==
  LET i == indexOf(c, slug)
  IN  IF i = 0
      THEN [cache |-> c, result |-> nullResult, hit |-> FALSE]
      ELSE IF t - c[i].createdAt > ttlMs
      THEN [cache |-> delete(c, slug), result |-> nullResult, hit |-> FALSE]
      ELSE [cache |-> [c EXCEPT ![i].refCount = @ + 1,
                                ![i].lastAccessed = t,
                                ![i].accessCount = @ + 1],
            result |-> [found |-> TRUE,
                        animationData |-> c[i].animationData,
                        metadata |-> [width |-> c[i].width,
                                      height |-> c[i].height,
                                      totalFrames |-> c[i].totalFrames,
                                      frameRate |-> c[i].frameRate]],
            hit |-> TRUE]

\* mutant: release without the refCount > 0 test
release_unguarded(c, slug) ==
  LET i == indexOf(c, slug)
  IN  IF i # 0 THEN [c EXCEPT ![i].refCount = @ - 1] ELSE c

release(c, slug) ==
  LET i == indexOf(c, slug)
  IN  IF i # 0 /\ c[i].refCount > 0
      THEN [c EXCEPT ![i].refCount = @ - 1]
      ELSE c

\* mutant: cleanup that looks at the age alone
cleanup_ageOnly(c, t) ==
  SelectSeq(c, LAMBDA e : ~(t - e.lastAccessed > ttlMs))

cleanup(c, t) ==
  SelectSeq(c, LAMBDA e : ~(e.refCount = 0 /\ t - e.lastAccessed > ttlMs))

\* the entries of c that are no longer in the map c2
removedBy(c, c2) == {c[i] : i \in {j \in 1..Len(c) : ~has(c2, c[j].slug)}}


\* ----------------------------------------------------------- RenderPool
\* The pool object, the worker threads and the promises as one record, so
\* that a handler and the calls it makes compose as functions.
poolState ==
  [ctx |-> ctx, workers |-> workers, availableWorkers |-> availableWorkers,
   taskQueue |-> taskQueue, totalTasks |-> totalTasks,
   completedTasks |-> completedTasks, failedTasks |-> failedTasks,
   rlottieStatus |-> rlottieStatus, thread |-> thread, promise |-> promise,
   dispatchLog |-> dispatchLog]

\* messages a worker thread posts to the pool
readyMsg  == [type |-> "ready", success |-> FALSE, task |-> noTask]
statusMsg == [type |-> "rlottie-status", success |-> FALSE, task |-> noTask]
resultMsg(ok, t) == [type |-> "result", success |-> ok, task |-> t]

\* exitCode is the code of the thread's 'exit' event once its state is
\* "exited"
newThread ==
  [state |-> "running", initialized |-> FALSE, inbox |-> <<>>,
   outbox |-> <<readyMsg>>, exitCode |-> 0]

newContext(id) ==
  [id |-> id, busy |-> FALSE, currentTask |-> noTask,
   tasksCompleted |-> 0, tasksFailed |-> 0]

\* Array.indexOf / splice on a sequence of context indices
seqIndexOf(s, x) ==
  IF \E i \in 1..Len(s) : s[i] = x
  THEN CHOOSE i \in 1..Len(s) : s[i] = x /\ \A j \in 1..(i - 1) : s[j] # x
  ELSE 0

splice(s, i) == SubSeq(s, 1, i - 1) \o SubSeq(s, i + 1, Len(s))

\* createWorker: a new thread and context, pushed to workers and to
\* availableWorkers
createWorker(st, id) ==
  LET c == Len(st.ctx) + 1
  IN  [st EXCEPT !.ctx = Append(@, newContext(id)),
                 !.thread = Append(@, newThread),
                 !.workers = Append(@, c),
                 !.availableWorkers = Append(@, c)]

\* initialize: the loop creating workers i .. size-1
RECURSIVE initialize(_, _, _)
initialize(st, i, size) ==
  IF i >= size THEN st ELSE initialize(createWorker(st, i), i + 1, size)

\* worker.postMessage: queued for a running thread, dropped otherwise
postMessage(st, c, task) ==
  [st EXCEPT !.thread[c].inbox =
                 IF st.thread[c].state = "running" THEN Append(@, task) ELSE @,
             !.dispatchLog =
                 Append(@, [task |-> task, ctx |-> c,
                            live |-> st.thread[c].state = "running"])]

\* mutant: processQueue taking the newest task
RECURSIVE processQueue_lifo(_)
processQueue_lifo(st) ==
  IF Len(st.taskQueue) > 0 /\ Len(st.availableWorkers) > 0
  THEN LET n    == Len(st.taskQueue)
           task == st.taskQueue[n]
           c    == Head(st.availableWorkers)
           st1  == [st EXCEPT !.taskQueue = SubSeq(@, 1, n - 1),
                              !.availableWorkers = Tail(@),
                              !.ctx[c].busy = TRUE,
                              !.ctx[c].currentTask = task]
       IN  processQueue_lifo(postMessage(st1, c, task))
  ELSE st

RECURSIVE processQueue(_)
processQueue(st) ==
  IF Len(st.taskQueue) > 0 /\ Len(st.availableWorkers) > 0
  THEN LET task == Head(st.taskQueue)
           c    == Head(st.availableWorkers)
           st1  == [st EXCEPT !.taskQueue = Tail(@),
                              !.availableWorkers = Tail(@),
                              !.ctx[c].busy = TRUE,
                              !.ctx[c].currentTask = task]
       IN  processQueue(postMessage(st1, c, task))
  ELSE st

\* task.resolve(data) / task.reject(error); value names the task whose
\* render produced the data, noTask for a message that carries none.
\* A promise record also keeps, as history, the number of tasks that were
\* in the queue when its task was submitted (ahead).
resolve(st, task, value) ==
  [st EXCEPT !.promise[task].resolved = @ + 1,
             !.promise[task].value = value,
             !.promise[task].state =
                 IF @ = "pending" THEN "fulfilled" ELSE @]

\* The reason of a rejection is an error object: new Error(result.error)
\* made by the pool from the error text of a report (the text is named by
\* the task whose render failed, noTask for a message without an error
\* field), or the error of an 'error' event (named by the thread that threw
\* it).
noError == [from |-> "none", message |-> noTask]
Error(message) == [from |-> "new Error", message |-> message]
uncaught(c) == [from |-> "event", message |-> c]

reject(st, task, error) ==
  [st EXCEPT !.promise[task].rejected = @ + 1,
             !.promise[task].reason =
                 IF st.promise[task].state = "pending" THEN error ELSE @,
             !.promise[task].state =
                 IF @ = "pending" THEN "rejected" ELSE @]

\* renderFrame: count, enqueue, processQueue
renderFrame(st) ==
  LET t == st.totalTasks + 1
  IN  processQueue([st EXCEPT !.totalTasks = t,
                              !.promise = Append(@, [state |-> "pending",
                                                     resolved |-> 0,
                                                     rejected |-> 0,
                                                     value |-> noTask,
                                                     reason |-> noError,
                                                     ahead |-> Len(st.taskQueue)]),
                              !.taskQueue = Append(@, t)])

\* mutant: handleWorkerMessage that keeps currentTask
handleWorkerMessage_keepsTask(st, c, result) ==
  IF st.ctx[c].currentTask = noTask THEN st
  ELSE LET task == st.ctx[c].currentTask
           st1  == [st EXCEPT !.completedTasks = @ + 1,
                              !.ctx[c].tasksCompleted = @ + 1]
           st2  == IF result.success
                   THEN resolve(st1, task, result.task)
                   ELSE reject([st1 EXCEPT !.failedTasks = @ + 1,
                                           !.ctx[c].tasksFailed = @ + 1],
                           task, Error(result.task))
       IN  processQueue([st2 EXCEPT !.ctx[c].busy = FALSE,
                                    !.availableWorkers = Append(@, c)])

\* mutant: handleWorkerMessage that does not drain the queue
handleWorkerMessage_noDrain(st, c, result) ==
  IF st.ctx[c].currentTask = noTask THEN st
  ELSE LET task == st.ctx[c].currentTask
           st1  == [st EXCEPT !.completedTasks = @ + 1,
                              !.ctx[c].tasksCompleted = @ + 1]
           st2  == IF result.success
                   THEN resolve(st1, task, result.task)
                   ELSE reject([st1 EXCEPT !.failedTasks = @ + 1,
                                           !.ctx[c].tasksFailed = @ + 1],
                           task, Error(result.task))
       IN  [st2 EXCEPT !.ctx[c].currentTask = noTask,
                       !.ctx[c].busy = FALSE,
                       !.availableWorkers = Append(@, c)]

\* handleWorkerMessage: every message other than rlottie-status arrives
\* here; a message without a success field (ready) has success undefined
handleWorkerMessage(st, c, result) ==
  IF st.ctx[c].currentTask = noTask THEN st
  ELSE LET task == st.ctx[c].currentTask
           st1  == [st EXCEPT !.completedTasks = @ + 1,
                              !.ctx[c].tasksCompleted = @ + 1]
           st2  == IF result.success
                   THEN resolve(st1, task, result.task)
                   ELSE reject([st1 EXCEPT !.failedTasks = @ + 1,
                                           !.ctx[c].tasksFailed = @ + 1],
                           task, Error(result.task))
       IN  processQueue([st2 EXCEPT !.ctx[c].currentTask = noTask,
                                    !.ctx[c].busy = FALSE,
                                    !.availableWorkers = Append(@, c)])

\* worker.on('message')
onMessage(st, c, result) ==
  IF result.type = "rlottie-status"
  THEN [st EXCEPT !.rlottieStatus = "reported"]
  ELSE handleWorkerMessage(st, c, result)

\* mutant: the 'error' handler that puts the task it rejected back in the
\* queue
onError_requeues(st, c) ==
  LET st1 == [st EXCEPT !.ctx[c].tasksFailed = @ + 1, !.failedTasks = @ + 1]
      st2 == IF st1.ctx[c].currentTask # noTask
             THEN [reject(st1, st1.ctx[c].currentTask, uncaught(c))
                     EXCEPT !.ctx[c].currentTask = noTask,
                            !.taskQueue = Append(@, st1.ctx[c].currentTask)]
             ELSE st1
  IN  processQueue([st2 EXCEPT !.ctx[c].busy = FALSE,
                               !.availableWorkers = Append(@, c)])

\* worker.on('error')
onError(st, c) ==
  LET st1 == [st EXCEPT !.ctx[c].tasksFailed = @ + 1, !.failedTasks = @ + 1]
      st2 == IF st1.ctx[c].currentTask # noTask
             THEN [reject(st1, st1.ctx[c].currentTask, uncaught(c))
                     EXCEPT !.ctx[c].currentTask = noTask]
             ELSE st1
  IN  processQueue([st2 EXCEPT !.ctx[c].busy = FALSE,
                               !.availableWorkers = Append(@, c)])

\* mutant: the 'exit' handler that leaves the dead context in workers
onExit_keepsDead(st, c, code) ==
  IF code # 0 THEN createWorker(st, st.ctx[c].id) ELSE st

\* worker.on('exit')
onExit(st, c, code) ==
  IF code # 0
  THEN LET index == seqIndexOf(st.workers, c)
           st1   == IF index > 0
                    THEN [st EXCEPT !.workers = splice(@, index)]
                    ELSE st
       IN  createWorker(st1, st.ctx[c].id)
  ELSE st

\* worker.terminate(): the thread stops executing; it reads no further
\* message. Its 'exit' is emitted later, with exit code 1.
terminate(st, c) ==
  IF st.thread[c].state = "running"
  THEN [st EXCEPT !.thread[c].state = "terminating", !.thread[c].inbox = <<>>]
  ELSE st

\* shutdown, up to its await: this.workers.map(w => w.worker.terminate())
RECURSIVE terminateAll(_, _)
terminateAll(st, i) ==
  IF i > Len(st.workers) THEN st
  ELSE terminateAll(terminate(st, st.workers[i]), i + 1)

\* Promise.all of the terminate() promises: each is fulfilled when the
\* 'exit' of its worker is emitted
terminatedAll(st, ts) == \A c \in ts : st.thread[c].state = "exited"

\* shutdown, after its await
shutdownComplete(st) ==
  [st EXCEPT !.workers = <<>>, !.availableWorkers = <<>>, !.taskQueue = <<>>]


\* ------------------------------------------------------------- server.js
\* generateSlug: the content hash of the parsed document
generateSlug(animationData) ==
  CASE animationData = "d1" -> "a"
    [] animationData = "d2" -> "b"
    [] OTHER -> "c"

\* getMetadata: width, height, totalFrames and frameRate of the document
\* (d1 is a 1 x 1 animation of 1 frame, every other one 2 x 1 of 2 frames)
getMetadata(animationData) ==
  CASE animationData = "d1" ->
         [width |-> 1, height |-> 1, totalFrames |-> 1, frameRate |-> 1]
    [] OTHER ->
         [width |-> 2, height |-> 1, totalFrames |-> 2, frameRate |-> 1]

\* the metadata objects the server passes to set
Metas == {getMetadata(d) : d \in Docs}

\* request bodies: the bytes of three gzipped animation files
Files == {"z1", "z2", "z3"}

\* parseTgs: ungzip and JSON.parse
parseTgs(buffer) ==
  CASE buffer = "z1" -> "d1"
    [] buffer = "z2" -> "d2"
    [] OTHER -> "d3"

\* the base64 text of a file, as a client of /convert/base64 sends it
toBase64(buffer) ==
  CASE buffer = "z1" -> "ejE="
    [] buffer = "z2" -> "ejI="
    [] OTHER -> "ejM="

\* Buffer.from(data, 'base64')
fromBase64(data) ==
  CASE data = "ejE=" -> "z1"
    [] data = "ejI=" -> "z2"
    [] OTHER -> "z3"

\* mutant: the lookup that inserts without looking first
lookupOrInsert_alwaysSets(c, slug, animationData, metadata, t) ==
  LET g2 == get(set(c, slug, animationData, metadata, t), slug, t)
  IN  [cache |-> g2.cache, result |-> g2.result,
       hits |-> IF g2.hit THEN 1 ELSE 0,
       misses |-> IF g2.hit THEN 0 ELSE 1,
       inserted |-> TRUE]

\* lines 98-106 of the handler: get, and on a miss set followed by get
lookupOrInsert(c, slug, animationData, metadata, t) ==
  LET g1 == get(c, slug, t)
  IN  IF g1.result.found
      THEN [cache |-> g1.cache, result |-> g1.result, hits |-> 1, misses |-> 0,
            inserted |-> FALSE]
      ELSE LET g2 == get(set(g1.cache, slug, animationData, metadata, t),
                         slug, t)
           IN  [cache |-> g2.cache, result |-> g2.result,
                hits |-> IF g2.hit THEN 1 ELSE 0,
                misses |-> 1 + (IF g2.hit THEN 0 ELSE 1),
                inserted |-> TRUE]

\* ------------------------------------------------------------------ state
emptyPool ==
  [ctx |-> <<>>, workers |-> <<>>, availableWorkers |-> <<>>,
   taskQueue |-> <<>>, totalTasks |-> 0, completedTasks |-> 0,
   failedTasks |-> 0, rlottieStatus |-> "checking", thread |-> <<>>,
   promise |-> <<>>, dispatchLog |-> <<>>]

\* the fields of a pool record become the next state
setPool(st) ==
  /\ ctx' = st.ctx
  /\ workers' = st.workers
  /\ availableWorkers' = st.availableWorkers
  /\ taskQueue' = st.taskQueue
  /\ totalTasks' = st.totalTasks
  /\ completedTasks' = st.completedTasks
  /\ failedTasks' = st.failedTasks
  /\ rlottieStatus' = st.rlottieStatus
  /\ thread' = st.thread
  /\ promise' = st.promise
  /\ dispatchLog' = st.dispatchLog

history == <<crashes, heldAtCrash, afterCrash>>

\* ------------------------------------------------------------ worker.js
\* x || d of JavaScript on numbers: d when x is 0 or missing (a missing field
\* is written 0)
orDefault(x, d) == IF x = 0 THEN d ELSE x

\* the defaults of getMetadata for op and ip
defaultOp == 60
defaultIp == 0
\* the default quality of renderFrame and of the fallback webp encoding
defaultQuality == 90
\* the quality renderWithRLottie encodes webp with
rlottieWebpQuality == 90

\* Math.max, Math.min
max(a, b) == IF a >= b THEN a ELSE b
min(a, b) == IF a <= b THEN a ELSE b

\* getMetadata of the worker: totalFrames (width, height and frameRate play
\* no part in the frame index or the encoding)
workerGetMetadata(animationData) ==
  [totalFrames |-> orDefault(animationData.op, defaultOp)
                     - orDefault(animationData.ip, defaultIp)]

\* the options renderFrame puts in the task (format "" is a missing format)
taskOptions(options) ==
  [format  |-> IF options.format = "" THEN "png" ELSE options.format,
   quality |-> orDefault(options.quality, defaultQuality)]

\* an invocation of the image encoder (sharp): none, png or webp with a
\* quality
noEncoder == [format |-> "none", quality |-> 0]
pngEncoder == [format |-> "png", quality |-> 0]
webpEncoder(quality) == [format |-> "webp", quality |-> quality]

\* renderWithRLottie: the rlottie command renders frameNumber to a png
\* file; the file is re-encoded for webp
renderWithRLottie(frameNumber, format) ==
  [frame   |-> frameNumber,
   encoder |-> IF format = "webp" THEN webpEncoder(rlottieWebpQuality)
               ELSE noEncoder]

\* processRenderTask: clamp the frame, render natively or with the
\* fallback, encode
processRenderTask(data, hasRLottie) ==
  LET metadata == workerGetMetadata(data.animationData)
      frame    == min(max(0, data.frameNumber), metadata.totalFrames - 1)
  IN  IF hasRLottie
      THEN renderWithRLottie(frame, data.options.format)
      ELSE [frame   |-> frame,
            encoder |-> IF data.options.format = "webp"
                        THEN webpEncoder(orDefault(data.options.quality,
                                                   defaultQuality))
                        ELSE pngEncoder]

\* no call under study
noCall ==
  [pc |-> "none", animationData |-> [op |-> 0, ip |-> 0], frameNumber |-> 0,
   options |-> taskOptions([format |-> "", quality |-> 0]),
   hasRLottie |-> FALSE, frame |-> 0, encoder |-> noEncoder]

\* the render messages a worker can be sent, in either rendering mode
RenderCalls ==
  {[pc |-> "posted", animationData |-> [op |-> op, ip |-> ip],
    frameNumber |-> f, options |-> taskOptions(o), hasRLottie |-> m,
    frame |-> 0, encoder |-> noEncoder] :
     op \in 0..MaxOp, ip \in 0..MaxOp,
     f \in (0 - MaxFrameNumber)..MaxFrameNumber,
     o \in [format : {"", "png", "webp"}, quality : {0, 50, defaultQuality}],
     m \in BOOLEAN}

\* the state after construction, but for the map of the cache and the clock
InitRest(size) ==
  /\ hits = 0
  /\ misses = 0
  /\ lastOp = "new"
  /\ lastArg = null
  /\ lastResult = nullResult
  /\ removed = {}
  /\ calls = 0
  /\ LET st == initialize(emptyPool, 0, size)
     IN  /\ ctx = st.ctx
         /\ workers = st.workers
         /\ availableWorkers = st.availableWorkers
         /\ taskQueue = st.taskQueue
         /\ totalTasks = st.totalTasks
         /\ completedTasks = st.completedTasks
         /\ failedTasks = st.failedTasks
         /\ rlottieStatus = st.rlottieStatus
         /\ thread = st.thread
         /\ promise = st.promise
         /\ dispatchLog = st.dispatchLog
  /\ crashes = 0
  /\ heldAtCrash = {}
  /\ afterCrash = {}
  /\ shutting = "no"
  /\ targets = {}
  /\ abandoned = {}
  /\ req = [r \in 1..MaxReq |->
              [pc |-> "idle", slug |-> null, task |-> noTask,
               releases |-> 0, cacheHit |-> FALSE, path |-> "none",
               animationData |-> "none", inserted |-> FALSE,
               cleared |-> FALSE]]

InitWith(size) ==
  /\ cache = <<>>
  /\ now = 0
  /\ InitRest(size)
  /\ call = noCall

\* new AnimationCache(CACHE_SIZE), new RenderPool(WORKER_POOL_SIZE)
Init == InitWith(WORKER_POOL_SIZE)

\* An entry of a cache that has been in use: inserted by set at time t
\* (refCount 1) and possibly released since (refCount 0). The key "a" holds
\* the document it is the hash of, the other keys hold d2.
usedEntry(slug, refCount, t) ==
  LET d == IF slug = "a" THEN "d1" ELSE "d2"
  IN  [newEntry(slug, d, getMetadata(d), t) EXCEPT !.refCount = refCount]

UsedEntries ==
  {usedEntry(slug, r, t) : slug \in Slugs, r \in {0, 1}, t \in 0..MaxTime}

\* the maps of up to n such entries, in any insertion order
RECURSIVE Stores(_)
Stores(n) ==
  IF n = 0 THEN {<<>>}
  ELSE LET S == Stores(n - 1)
       IN  S \cup {Append(p[1], p[2]) :
                     p \in {q \in S \X UsedEntries :
                              Len(q[1]) = n - 1 /\ ~has(q[1], q[2].slug)}}

\* a cache that has been in use for MaxTime ticks and holds up to maxSize
\* entries
StoreInit ==
  /\ cache \in Stores(maxSize)
  /\ now = MaxTime
  /\ InitRest(WORKER_POOL_SIZE)
  /\ call = noCall

\* new RenderPool(poolSize)
PoolInit == InitWith(poolSize)

\* ------------------------------------------------- cache operations
cacheStep(op, slug, c2, result) ==
  /\ cache' = c2
  /\ lastOp' = op
  /\ lastArg' = slug
  /\ lastResult' = result
  /\ removed' = removedBy(cache, c2)

\* one more direct call of a cache operation
called == calls < MaxCalls /\ calls' = calls + 1

\* the calls of get, set and release, whoever makes them
GetCall(slug) ==
  /\ LET g == get(cache, slug, now)
     IN  /\ cacheStep("get", slug, g.cache, g.result)
         /\ hits' = IF g.hit THEN hits + 1 ELSE hits
         /\ misses' = IF g.hit THEN misses ELSE misses + 1
  /\ UNCHANGED <<now, poolVars, req, call>>

SetCall(slug, animationData, metadata) ==
  /\ cacheStep("set", slug, set(cache, slug, animationData, metadata, now),
               [found |-> FALSE, animationData |-> animationData,
                metadata |-> metadata])
  /\ UNCHANGED <<hits, misses, now, poolVars, req, call>>

ReleaseCall(slug) ==
  /\ cacheStep("release", slug, release(cache, slug), nullResult)
  /\ UNCHANGED <<hits, misses, now, poolVars, req, call>>

Get(slug) == called /\ GetCall(slug)

Set(slug, animationData, metadata) ==
  called /\ SetCall(slug, animationData, metadata)

Release(slug) == called /\ ReleaseCall(slug)

EvictLRU ==
  /\ called
  /\ cacheStep("evictLRU", null, evictLRU(cache), nullResult)
  /\ UNCHANGED <<hits, misses, now, poolVars, req, call>>

\* the setInterval callback
Cleanup ==
  /\ called
  /\ cacheStep("cleanup", null, cleanup(cache, now), nullResult)
  /\ UNCHANGED <<hits, misses, now, poolVars, req, call>>

\* clear(), also POST /cache/clear (history: the requests in flight hold
\* references acquired before this clear)
Clear ==
  /\ called
  /\ cacheStep("clear", null, <<>>, nullResult)
  /\ hits' = 0
  /\ misses' = 0
  /\ req' = [r \in 1..MaxReq |->
               IF req[r].pc = "rendering"
               THEN [req[r] EXCEPT !.cleared = TRUE] ELSE req[r]]
  /\ UNCHANGED <<now, poolVars, call>>

\* the clock advances
Tick ==
  /\ now < MaxTime
  /\ now' = now + 1
  /\ UNCHANGED <<cache, hits, misses, lastOp, lastArg, lastResult, removed,
                 calls, poolVars, req, call>>

\* ---------------------------------------------- POST /convert, resumed
\* The handler awaits the promise of renderFrame. Its continuation is a
\* microtask: it runs when the event handler that settled the promise
\* returns, before any other event. A fulfilled promise takes it to
\* cache.release and the reply, a rejected one to the catch block.
resumed(p2) ==
  {r \in 1..MaxReq : /\ req[r].pc = "rendering"
                       /\ promise[req[r].task].state = "pending"
                       /\ p2[req[r].task].state # "pending"}

resume(p2) ==
  IF resumed(p2) = {}
  THEN UNCHANGED <<cacheVars, req, call>>
  ELSE LET r == CHOOSE x \in resumed(p2) : TRUE
       IN  /\ IF p2[req[r].task].state = "fulfilled"
              THEN /\ cacheStep("release", req[r].slug,
                                release(cache, req[r].slug), nullResult)
                   /\ req' = [req EXCEPT ![r].pc = "replied",
                                         ![r].releases = @ + 1]
              ELSE /\ req' = [req EXCEPT ![r].pc = "failed"]
                   /\ UNCHANGED <<cache, lastOp, lastArg, lastResult, removed>>
           /\ UNCHANGED <<hits, misses, now, calls, call>>

\* --------------------------------------------------- pool operations
\* a caller invokes renderFrame
Submit ==
  /\ totalTasks < MaxTasks
  /\ setPool(renderFrame(poolState))
  /\ afterCrash' = IF crashes > 0 THEN afterCrash \cup {totalTasks + 1}
                   ELSE afterCrash
  /\ UNCHANGED <<crashes, heldAtCrash, shutVars, cacheVars, req, call>>

\* a worker thread handles one render message: initialize on first use
\* (posting rlottie-status), processRenderTask, post the result
WorkerRender(c, i, ok) ==
  /\ c \in DOMAIN thread
  /\ thread[c].state = "running"
  /\ i \in DOMAIN thread[c].inbox
  /\ thread' = [thread EXCEPT
       ![c].inbox = splice(@, i),
       ![c].initialized = TRUE,
       ![c].outbox = (IF thread[c].initialized THEN @
                      ELSE Append(@, statusMsg))
                     \o <<resultMsg(ok, thread[c].inbox[i])>>]
  /\ UNCHANGED <<ctx, workers, availableWorkers, taskQueue, totalTasks,
                 completedTasks, failedTasks, rlottieStatus, promise,
                 dispatchLog, history, shutVars, cacheVars, req, call>>

\* the pool receives the next message of a worker; the messages a thread
\* posted before worker.terminate() stopped it are still delivered, at the
\* latest when the port is drained before 'exit' is emitted
Deliver(c) ==
  /\ c \in DOMAIN thread
  /\ thread[c].state \in {"running", "terminating"}
  /\ thread[c].outbox # <<>>
  /\ LET st == [poolState EXCEPT !.thread[c].outbox = Tail(@)]
         st2 == onMessage(st, c, Head(thread[c].outbox))
     IN  setPool(st2) /\ resume(st2.promise)
  /\ UNCHANGED <<history, shutVars>>

queued == {taskQueue[i] : i \in DOMAIN taskQueue}

\* a worker thread dies of an uncaught exception: 'error' is emitted
ErrorEvent(c) ==
  /\ c \in DOMAIN thread
  /\ thread[c].state = "running"
  /\ crashes < MaxCrashes
  /\ crashes' = crashes + 1
  /\ heldAtCrash' = heldAtCrash \cup ({ctx[c].currentTask} \ {noTask})
  /\ afterCrash' = afterCrash \cup queued
  /\ LET st == [poolState EXCEPT !.thread[c] =
                  [@ EXCEPT !.state = "errored", !.inbox = <<>>,
                            !.outbox = <<>>]]
         st2 == onError(st, c)
     IN  setPool(st2) /\ resume(st2.promise)
  /\ UNCHANGED shutVars

\* 'exit' follows the 'error' of a thread that died: the code is 1
ExitAfterError(c) ==
  /\ c \in DOMAIN thread
  /\ thread[c].state = "errored"
  /\ LET st == [poolState EXCEPT !.thread[c].state = "exited",
                                 !.thread[c].exitCode = 1]
     IN  setPool(onExit(st, c, 1))
  /\ UNCHANGED <<history, shutVars, cacheVars, req, call>>

\* a running thread ends without an 'error' (process.exit in the worker,
\* worker.terminate): 'exit' alone is emitted, with any code
ExitEvent(c, code) ==
  /\ c \in DOMAIN thread
  /\ thread[c].state = "running"
  /\ crashes < MaxCrashes
  /\ crashes' = crashes + 1
  /\ heldAtCrash' = IF code # 0
                    THEN heldAtCrash \cup ({ctx[c].currentTask} \ {noTask})
                    ELSE heldAtCrash
  /\ afterCrash' = IF code # 0 THEN afterCrash \cup queued ELSE afterCrash
  /\ LET st == [poolState EXCEPT !.thread[c] =
                  [@ EXCEPT !.state = "exited", !.inbox = <<>>,
                            !.outbox = <<>>, !.exitCode = code]]
     IN  setPool(onExit(st, c, code))
  /\ UNCHANGED <<shutVars, cacheVars, req, call>>

\* shutdown() is called: terminate() on every worker of this.workers, then
\* the await; with no thread left to wait for the rest follows at once
Shutdown ==
  /\ shutting = "no"
  /\ LET st == terminateAll(poolState, 1)
         ts == {workers[i] : i \in DOMAIN workers}
     IN  /\ targets' = ts
         /\ abandoned' = queued
         /\ IF terminatedAll(st, ts)
            THEN shutting' = "done" /\ setPool(shutdownComplete(st))
            ELSE shutting' = "called" /\ setPool(st)
  /\ UNCHANGED <<history, cacheVars, req, call>>

\* 'exit' of a terminated thread, after its port is drained: the code is 1,
\* the 'exit' handler runs, the terminate() promise is fulfilled; the last of
\* them resumes shutdown() before any other event
ExitTerminated(c) ==
  /\ c \in DOMAIN thread
  /\ thread[c].state = "terminating"
  /\ thread[c].outbox = <<>>
  /\ LET st == onExit([poolState EXCEPT !.thread[c].state = "exited",
                                        !.thread[c].exitCode = 1], c, 1)
     IN  IF shutting = "called" /\ terminatedAll(st, targets)
         THEN shutting' = "done" /\ setPool(shutdownComplete(st))
         ELSE UNCHANGED shutting /\ setPool(st)
  /\ UNCHANGED <<targets, abandoned, history, cacheVars, req, call>>

\* ------------------------------------------------------ POST /convert
\* the code the two conversion handlers share, up to the await: slug, cache
\* lookup, renderFrame
ConvertVia(r, animationData, path) ==
  /\ req[r].pc = "idle"
  /\ r = totalTasks + 1
  /\ LET slug == generateSlug(animationData)
         l    == lookupOrInsert(cache, slug, animationData,
                                getMetadata(animationData), now)
     IN  /\ cacheStep("convert", slug, l.cache, l.result)
         /\ hits' = hits + l.hits
         /\ misses' = misses + l.misses
         /\ UNCHANGED calls
         /\ req' = [req EXCEPT ![r] = [pc |-> "rendering", slug |-> slug,
                                       task |-> totalTasks + 1,
                                       releases |-> 0,
                                       cacheHit |-> l.result.found,
                                       path |-> path,
                                       animationData |-> animationData,
                                       inserted |-> l.inserted,
                                       cleared |-> FALSE]]
  /\ setPool(renderFrame(poolState))
  /\ afterCrash' = IF crashes > 0 THEN afterCrash \cup {totalTasks + 1}
                   ELSE afterCrash
  /\ UNCHANGED <<now, crashes, heldAtCrash, shutVars, call>>

\* POST /convert: the parsed multipart upload
Convert(r, animationData) == ConvertVia(r, animationData, "multipart")

\* POST /convert/base64: the decoded and parsed body
ConvertBase64(r, data) ==
  ConvertVia(r, parseTgs(fromBase64(data)), "base64")

\* ------------------------------------------------ worker: render message
\* the worker handles the render message under study
ProcessRenderTask ==
  /\ call.pc = "posted"
  /\ LET result == processRenderTask(call, call.hasRLottie)
     IN  call' = [call EXCEPT !.pc = "done", !.frame = result.frame,
                              !.encoder = result.encoder]
  /\ UNCHANGED <<cacheVars, poolVars, req>>

\* ------------------------------------------------------- specifications
\* one render message handled by a worker, for every message and mode
RenderInit ==
  /\ cache = <<>>
  /\ now = 0
  /\ InitRest(WORKER_POOL_SIZE)
  /\ call \in RenderCalls

RenderNext == ProcessRenderTask

RenderSpec == RenderInit /\ [][RenderNext]_vars

\* the cache driven through its public operations
CacheNext ==
  \/ \E slug \in Slugs : Get(slug)
  \/ \E slug \in Slugs, d \in Docs : Set(slug, d, getMetadata(d))
  \/ \E slug \in Slugs : Release(slug)
  \/ EvictLRU
  \/ Cleanup
  \/ Clear
  \/ Tick

CacheSpec == Init /\ [][CacheNext]_vars

\* set called on a cache in any state of use, followed immediately by get
StoreNext ==
  \/ /\ lastOp = "new"
     /\ \E slug \in Slugs, d \in Docs, m \in Metas : Set(slug, d, m)
  \/ /\ lastOp = "set"
     /\ \E slug \in Slugs : Get(slug)

StoreSpec == StoreInit /\ [][StoreNext]_vars

\* The eviction scenario: set(A), get(A), set(B), get(B), release(A),
\* release(B), set(C), for any documents, with the clock free to advance
\* between the calls.
keyA == "a"

keyB == "b"

keyC == "c"

\* the n-th call of the scenario has been made
step(n) == calls = n /\ calls' = n + 1

ScenarioNext ==
  \/ step(0) /\ \E d \in Docs, m \in Metas : SetCall(keyA, d, m)
  \/ step(1) /\ GetCall(keyA)
  \/ step(2) /\ \E d \in Docs, m \in Metas : SetCall(keyB, d, m)
  \/ step(3) /\ GetCall(keyB)
  \/ step(4) /\ ReleaseCall(keyA)
  \/ step(5) /\ ReleaseCall(keyB)
  \/ step(6) /\ \E d \in Docs, m \in Metas : SetCall(keyC, d, m)
  \/ Tick

ScenarioSpec == Init /\ [][ScenarioNext]_vars

\* the pool driven through renderFrame, with worker failures
PoolNext ==
  \/ Submit
  \/ \E c \in 1..(poolSize + MaxCrashes), i \in 1..MaxTasks, ok \in BOOLEAN :
       WorkerRender(c, i, ok)
  \/ \E c \in 1..(poolSize + MaxCrashes) : Deliver(c)
  \/ \E c \in 1..(poolSize + MaxCrashes) : ErrorEvent(c)
  \/ \E c \in 1..(poolSize + MaxCrashes) : ExitAfterError(c)
  \/ \E c \in 1..(poolSize + MaxCrashes), code \in ExitCodes :
       ExitEvent(c, code)

PoolSpec == PoolInit /\ [][PoolNext]_vars

\* every worker thread eventually handles each render message it received
\* and every message it posted is eventually delivered
workersReport ==
  \A c \in 1..poolSize :
    /\ WF_vars(\E i \in 1..MaxTasks, ok \in BOOLEAN : WorkerRender(c, i, ok))
    /\ WF_vars(Deliver(c))

\* the pool with no worker failure and no shutdown
PoolLiveNext ==
  \/ Submit
  \/ \E c \in 1..poolSize, i \in 1..MaxTasks, ok \in BOOLEAN :
       WorkerRender(c, i, ok)
  \/ \E c \in 1..poolSize : Deliver(c)

PoolLiveSpec == PoolInit /\ [][PoolLiveNext]_vars /\ workersReport

\* the pool driven through renderFrame and shutdown, without worker failure:
\* every terminated worker is replaced by its 'exit' handler
PoolShutdownNext ==
  \/ Submit
  \/ \E c \in 1..(2 * poolSize), i \in 1..MaxTasks, ok \in BOOLEAN :
       WorkerRender(c, i, ok)
  \/ \E c \in 1..(2 * poolSize) : Deliver(c)
  \/ Shutdown
  \/ \E c \in 1..(2 * poolSize) : ExitTerminated(c)

PoolShutdownSpec == PoolInit /\ [][PoolShutdownNext]_vars

\* the server with both conversion endpoints and no worker failure
PathsNext ==
  \/ \E r \in 1..MaxPathReq, f \in Files : Convert(r, parseTgs(f))
  \/ \E r \in 1..MaxPathReq, f \in Files : ConvertBase64(r, toBase64(f))
  \/ \E c \in 1..WORKER_POOL_SIZE, i \in 1..MaxPathReq, ok \in BOOLEAN :
       WorkerRender(c, i, ok)
  \/ \E c \in 1..WORKER_POOL_SIZE : Deliver(c)
  \/ calls < MaxAdmin /\ Clear
  \/ Tick

PathsSpec == Init /\ [][PathsNext]_vars

\* the server converting uploads of any of the files, with no clock and no
\* administration: the cache fills through /convert alone
ServeNext ==
  \/ \E r \in 1..MaxReq, f \in Files : Convert(r, parseTgs(f))
  \/ \E c \in 1..WORKER_POOL_SIZE, i \in 1..MaxReq, ok \in BOOLEAN :
       WorkerRender(c, i, ok)
  \/ \E c \in 1..WORKER_POOL_SIZE : Deliver(c)

ServeSpec == Init /\ [][ServeNext]_vars

\* the server: requests through POST /convert, the workers rendering,
\* reporting and failing, the cleanup timer and POST /cache/clear
Next ==
  \/ \E r \in 1..MaxReq, d \in Docs : Convert(r, d)
  \/ \E c \in 1..(WORKER_POOL_SIZE + MaxCrashes), i \in 1..MaxReq,
        ok \in BOOLEAN : WorkerRender(c, i, ok)
  \/ \E c \in 1..(WORKER_POOL_SIZE + MaxCrashes) : Deliver(c)
  \/ \E c \in 1..(WORKER_POOL_SIZE + MaxCrashes) : ErrorEvent(c)
  \/ \E c \in 1..(WORKER_POOL_SIZE + MaxCrashes) : ExitAfterError(c)
  \/ \E c \in 1..(WORKER_POOL_SIZE + MaxCrashes), code \in ExitCodes :
       ExitEvent(c, code)
  \/ calls < MaxAdmin /\ Cleanup
  \/ calls < MaxAdmin /\ Clear
  \/ Tick

Spec == Init /\ [][Next]_vars


\* ------------------------------------------------------------ properties
\* the requests that hold a reference to slug: past the get of the handler,
\* not yet at its release
inFlight(slug) ==
  {r \in 1..MaxReq : req[r].pc = "rendering" /\ req[r].slug = slug}

entryOf(slug) == cache[indexOf(cache, slug)]

\* C1: neither evictLRU (called directly or by set at capacity) nor cleanup
\* takes an entry with refCount > 0 out of the map, whatever its age
C1_ReferencedNeverEvicted ==
  [][lastOp' \in {"evictLRU", "set", "cleanup"} =>
       \A i \in DOMAIN cache :
         cache[i].refCount > 0 => has(cache', cache[i].slug)]_vars

\* C1 witness: a set at capacity evicted an entry while a referenced entry
\* with an older lastAccessed stayed
C1_Witness ==
  /\ lastOp = "set"
  /\ \E e \in removed : \E i \in DOMAIN cache :
       /\ cache[i].refCount > 0
       /\ cache[i].slug # lastArg
       /\ cache[i].lastAccessed < e.lastAccessed

\* C2: an entry that a request has obtained and not yet released has
\* refCount > 0
C2_InUseEntryReferenced ==
  \A r \in 1..MaxReq :
    (req[r].pc = "rendering" /\ has(cache, req[r].slug))
      => entryOf(req[r].slug).refCount > 0

\* C3: refCount of every entry equals the number of requests in flight for
\* its key
C3_RefCountIsInFlightCount ==
  \A i \in DOMAIN cache :
    cache[i].refCount = Cardinality(inFlight(cache[i].slug))

\* C4: a request that has ended released its reference exactly once,
\* whether the render resolved or was rejected
C4_ReleasedExactlyOnce ==
  \A r \in 1..MaxReq :
    req[r].pc \in {"replied", "failed"} => req[r].releases = 1


\* the tasks whose promise is settled / that were handed to a worker
settled(t) == t \in DOMAIN promise /\ promise[t].state # "pending"

dispatched(t) == \E i \in DOMAIN dispatchLog : dispatchLog[i].task = t

\* the tasks handed to context c whose promise is still pending
unsettledOn(c) ==
  {dispatchLog[i].task :
     i \in {j \in DOMAIN dispatchLog :
              dispatchLog[j].ctx = c /\ ~settled(dispatchLog[j].task)}}

\* C5: every worker holds at most one dispatched and unsettled task, and
\* there are never more than poolSize of them
C5_OneTaskPerWorker ==
  /\ \A c \in DOMAIN ctx : Cardinality(unsettledOn(c)) <= 1
  /\ Cardinality({t \in DOMAIN promise : dispatched(t) /\ ~settled(t)})
       <= poolSize

\* C6: tasks are dispatched in the order of their submission (task ids
\* count the renderFrame calls)
C6_FifoDispatch ==
  \A i \in DOMAIN dispatchLog : dispatchLog[i].task = i

\* C6 witness: tasks waited in the queue behind one another, a worker
\* failed, and all tasks were dispatched
C6_Witness ==
  /\ Len(dispatchLog) = MaxTasks
  /\ crashes > 0
  /\ \E t \in DOMAIN promise : promise[t].ahead >= 1

\* C7: resolve and reject of a task are invoked at most once altogether
C7_SettledAtMostOnce ==
  \A t \in DOMAIN promise : promise[t].resolved + promise[t].rejected <= 1

\* C7 witness: a task was rejected by the 'error' of the worker holding it,
\* another was resolved by a message
C7_Witness ==
  /\ \E t \in heldAtCrash : promise[t].rejected = 1
  /\ \E t \in DOMAIN promise : promise[t].resolved = 1

\* C8: without worker failure, every submitted task is eventually
\* dispatched and its promise settled (a task stays submitted, dispatched
\* and settled once it is, so "eventually" is "from some point on")
C8_EveryTaskSettles ==
  \A t \in 1..MaxTasks :
    <>[](totalTasks >= t => dispatched(t) /\ settled(t))

\* C8 witness: all tasks are settled, one of them submitted behind a queue
C8_Witness ==
  /\ totalTasks = MaxTasks
  /\ \A t \in 1..MaxTasks : settled(t)
  /\ \E t \in DOMAIN promise : promise[t].ahead >= 1 /\ promise[t].resolved = 1

\* C9: a task held by a worker whose thread terminated ('error', or a
\* non-zero 'exit' without 'error') is rejected
C9_CrashRejectsHeldTask ==
  \A t \in heldAtCrash : promise[t].state = "rejected"

\* C10: a task that was queued at a worker failure or submitted after it
\* is handed to a live worker (a task is dispatched once, so one handed to
\* a dead worker is never rendered and never settled)
C10_DispatchedToLiveWorker ==
  \A i \in DOMAIN dispatchLog :
    dispatchLog[i].task \in afterCrash => dispatchLog[i].live

\* C11: a task is settled only by the result of its own render: no task is
\* resolved with the payload computed for another task, and a worker is not
\* marked idle (by the 'ready' message or any other) while a render message
\* it was sent is still unprocessed
C11_SettledByOwnResult ==
  /\ \A t \in DOMAIN promise :
       promise[t].state = "fulfilled" => promise[t].value = t
  /\ \A c \in DOMAIN ctx :
       (thread[c].state = "running" /\ ~ctx[c].busy) => thread[c].inbox = <<>>

\* C12: once shutdown() has completed, no worker thread the pool created is
\* still running
C12_AllWorkersTerminated ==
  shutting = "done" => \A c \in DOMAIN thread : thread[c].state # "running"

\* C13: a task that was in the queue when shutdown() was called is never
\* dispatched and its promise never settled
C13_QueuedTasksAbandoned ==
  \A t \in abandoned : ~dispatched(t) /\ ~settled(t)

\* the workers of the pool that are not busy
idleWorkers ==
  {workers[i] : i \in {j \in DOMAIN workers : ~ctx[workers[j]].busy}}

\* C14: while no submitted task has completed, the first poolSize tasks are
\* dispatched, one per worker, and the others wait in the queue in the order
\* of their submission; and at all times the queue is non-empty only if no
\* worker is idle
C14_QueueOnlyWhenAllBusy ==
  /\ (crashes = 0 /\ \A t \in DOMAIN promise : ~settled(t)) =>
       LET n == IF totalTasks < poolSize THEN totalTasks ELSE poolSize
       IN  /\ Len(dispatchLog) = n
           /\ \A i \in DOMAIN dispatchLog : dispatchLog[i].task = i
           /\ \A i, j \in DOMAIN dispatchLog :
                i # j => dispatchLog[i].ctx # dispatchLog[j].ctx
           /\ taskQueue = [i \in 1..(totalTasks - n) |-> n + i]
  /\ taskQueue # <<>> => idleWorkers = {}

\* the tasks that are the currentTask of some worker context
held == {ctx[c].currentTask : c \in DOMAIN ctx} \ {noTask}

\* C15: completedTasks counts the resolved tasks and failedTasks the
\* rejected ones, so that every submitted task is counted once: completed,
\* failed, queued or held by a worker
C15_CountersPartitionTasks ==
  /\ completedTasks =
       Cardinality({t \in DOMAIN promise : promise[t].state = "fulfilled"})
  /\ failedTasks =
       Cardinality({t \in DOMAIN promise : promise[t].state = "rejected"})
  /\ totalTasks =
       completedTasks + failedTasks + Len(taskQueue) + Cardinality(held)

C17_ReleaseDecrementsOrNoOp ==
  [][/\ \A i \in DOMAIN cache' : cache'[i].refCount >= 0
     /\ (calls' = calls + 1 /\ lastOp' = "release") =>
          LET i == indexOf(cache, lastArg')
          IN  IF i # 0 /\ cache[i].refCount > 0
              THEN /\ Len(cache') = Len(cache)
                   /\ cache'[i].refCount = cache[i].refCount - 1
                   /\ \A j \in DOMAIN cache :
                        [cache'[j] EXCEPT !.refCount = 0] =
                          [cache[j] EXCEPT !.refCount = 0]
                   /\ \A j \in DOMAIN cache :
                        j # i => cache'[j].refCount = cache[j].refCount
              ELSE cache' = cache]_vars

\* C17 witness: the entry inserted by set (refCount 1) was released and is
\* at refCount 0
C17_Witness ==
  /\ lastOp = "release"
  /\ calls = 2
  /\ has(cache, lastArg)
  /\ entryOf(lastArg).refCount = 0

\* C18: get(k) called right after set(k, d, m) returns the document d and
\* the metadata m, whatever the cache held before
C18_SetGetRoundTrip ==
  [][(/\ lastOp = "set"
      /\ lastOp' = "get"
      /\ lastArg' = lastArg
      /\ now' = now) =>
       /\ lastResult'.found
       /\ lastResult'.animationData = lastResult.animationData
       /\ lastResult'.metadata = lastResult.metadata]_vars

\* C18 witness: the round trip on a cache that was at capacity with every
\* entry referenced, for a key it did not hold
C18_Witness ==
  /\ lastOp = "get"
  /\ lastResult.found
  /\ Len(cache) = maxSize + 1
  /\ cache[Len(cache)].slug = lastArg
  /\ \A i \in DOMAIN cache : cache[i].refCount > 0

\* C19: set with a new key on a cache of maxSize entries, at least one of
\* them unreferenced, removes exactly one entry: an unreferenced one whose
\* lastAccessed is the smallest among the unreferenced entries
C19_EvictsOneLeastRecentlyUsed ==
  [][(/\ calls' = calls + 1
      /\ lastOp' = "set"
      /\ Len(cache) = maxSize
      /\ ~has(cache, lastArg')
      /\ \E i \in DOMAIN cache : cache[i].refCount = 0) =>
       \E i \in DOMAIN cache :
         /\ cache[i].refCount = 0
         /\ \A j \in DOMAIN cache :
              cache[j].refCount = 0 =>
                cache[i].lastAccessed <= cache[j].lastAccessed
         /\ removed' = {cache[i]}
         /\ Len(cache') = maxSize]_vars

\* C19 witness: set evicted one entry and an unreferenced entry that was
\* accessed later, and inserted earlier, stayed
C19_Witness ==
  /\ lastOp = "set"
  /\ \E e \in removed :
       /\ removed = {e}
       /\ cache[1].refCount = 0
       /\ cache[1].slug # lastArg
       /\ cache[1].lastAccessed > e.lastAccessed

\* C20: set with a new key on a cache of maxSize entries that are all
\* referenced removes nothing and appends the new entry: the cache holds
\* maxSize + 1 entries
C20_FullReferencedCacheGrows ==
  [][(/\ calls' = calls + 1
      /\ lastOp' = "set"
      /\ Len(cache) = maxSize
      /\ ~has(cache, lastArg')
      /\ \A i \in DOMAIN cache : cache[i].refCount > 0) =>
       /\ removed' = {}
       /\ Len(cache') = maxSize + 1
       /\ SubSeq(cache', 1, maxSize) = cache
       /\ cache'[maxSize + 1].slug = lastArg'
       /\ cache'[maxSize + 1].refCount = 1]_vars

\* C20 witness: after a set the cache holds maxSize + 1 entries, nothing was
\* removed and the maxSize older entries are referenced
C20_Witness ==
  /\ lastOp = "set"
  /\ removed = {}
  /\ Len(cache) = maxSize + 1
  /\ cache[Len(cache)].slug = lastArg
  /\ \A i \in 1..maxSize : cache[i].refCount > 0

\* C21: a cleanup run removes every entry that has refCount 0 and was last
\* accessed more than ttlMs ago, and leaves every other entry (referenced,
\* whatever its age, or accessed within ttlMs) in the map
C21_CleanupRemovesIdleExpired ==
  [][(calls' = calls + 1 /\ lastOp' = "cleanup") =>
       \A i \in DOMAIN cache :
         IF cache[i].refCount = 0 /\ now - cache[i].lastAccessed > ttlMs
         THEN ~has(cache', cache[i].slug)
         ELSE /\ has(cache', cache[i].slug)
              /\ cache'[indexOf(cache', cache[i].slug)] = cache[i]]_vars

\* C21 witness: a cleanup removed an entry and a referenced entry that was
\* last accessed more than ttlMs ago stayed
C21_Witness ==
  /\ lastOp = "cleanup"
  /\ removed # {}
  /\ \E i \in DOMAIN cache :
       cache[i].refCount > 0 /\ now - cache[i].lastAccessed > ttlMs

\* C22: get(k) of an absent key records a miss and changes no entry; of an
\* entry created more than ttlMs ago removes it, records a miss and returns
\* null; of any other entry adds 1 to its refCount and accessCount, sets its
\* lastAccessed to now, records a hit and returns it
C22_GetHitMissExpiry ==
  [][(calls' = calls + 1 /\ lastOp' = "get") =>
       LET i == indexOf(cache, lastArg')
       IN  IF i = 0
           THEN /\ cache' = cache
                /\ misses' = misses + 1 /\ hits' = hits
                /\ ~lastResult'.found
           ELSE IF now - cache[i].createdAt > ttlMs
           THEN /\ ~has(cache', lastArg')
                /\ Len(cache') = Len(cache) - 1
                /\ \A j \in DOMAIN cache :
                     j # i => cache'[indexOf(cache', cache[j].slug)] = cache[j]
                /\ misses' = misses + 1 /\ hits' = hits
                /\ ~lastResult'.found
           ELSE /\ cache' = [cache EXCEPT
                     ![i].refCount = cache[i].refCount + 1,
                     ![i].accessCount = cache[i].accessCount + 1,
                     ![i].lastAccessed = now]
                /\ hits' = hits + 1 /\ misses' = misses
                /\ lastResult'.found]_vars

\* C22 witness: get found an entry expired that an earlier get had hit, and
\* removed it
C22_Witness ==
  /\ lastOp = "get"
  /\ ~lastResult.found
  /\ hits > 0
  /\ \E e \in removed : e.slug = lastArg /\ e.accessCount > 1

\* C23: no operation but clear removes or replaces an entry whose refCount
\* is greater than 0
C23_ReferencedEntryStays ==
  [][(calls' = calls + 1 /\ lastOp' # "clear") =>
       \A i \in DOMAIN cache :
         cache[i].refCount > 0 =>
           /\ has(cache', cache[i].slug)
           /\ ~(lastOp' = "set" /\ lastArg' = cache[i].slug)]_vars

\* C24: with capacity 2, when both gets of the scenario were hits, A and B
\* have refCount 0 after release(A) and release(B), and after set(C) the
\* cache holds exactly B and C
C24_ScenarioEvictsOldest ==
  (maxSize = 2 /\ hits = 2) =>
    /\ calls = 6 =>
         /\ has(cache, keyA) /\ entryOf(keyA).refCount = 0
         /\ has(cache, keyB) /\ entryOf(keyB).refCount = 0
    /\ calls = 7 =>
         /\ Len(cache) = 2
         /\ cache[1].slug = keyB
         /\ cache[2].slug = keyC

\* C25: a request whose document equals that of an earlier request on the
\* other endpoint computes the same key, and when the earlier entry is still
\* cached (present and not expired) its lookup is a hit and it inserts
\* nothing, whether the earlier request has completed or not
C25_SameContentOneInsertion ==
  [][\A r1, r2 \in 1..MaxReq :
       (/\ req[r1].pc # "idle"
        /\ req[r2].pc = "idle"
        /\ req'[r2].pc # "idle"
        /\ req'[r2].animationData = req[r1].animationData
        /\ req'[r2].path # req[r1].path) =>
         /\ req'[r2].slug = req[r1].slug
         /\ (/\ has(cache, req[r1].slug)
             /\ now - entryOf(req[r1].slug).createdAt <= ttlMs) =>
              /\ ~req'[r2].inserted
              /\ hits' = hits + 1
              /\ misses' = misses]_vars

\* C25 witness: two overlapping requests for one document, one per
\* endpoint: the first inserted it, the second did not
C25_Witness ==
  \E r1, r2 \in 1..MaxReq :
    /\ req[r1].pc = "rendering" /\ req[r2].pc = "rendering"
    /\ req[r1].path = "multipart" /\ req[r2].path = "base64"
    /\ req[r1].animationData = req[r2].animationData
    /\ req[r1].slug = req[r2].slug
    /\ req[r1].inserted /\ ~req[r2].inserted

\* C26: the cache-hit flag of a reply (X-Cache-Hit, cacheHit) is true when
\* the request's lookup found the animation and false when the request had
\* to insert it
C26_CacheHitFlagReportsLookup ==
  \A r \in 1..MaxReq :
    req[r].pc = "replied" => (req[r].cacheHit <=> ~req[r].inserted)

\* C27: the release of a request that obtained its entry before a clear()
\* changes the refCount of no entry (it changes nothing in the cache),
\* whatever requests inserted the key again after the clear
C27_StaleReleaseChangesNothing ==
  [][\A r \in 1..MaxReq :
       (/\ req[r].pc = "rendering"
        /\ req[r].cleared
        /\ req'[r].pc = "replied") => cache' = cache]_vars

\* C28: a run of the periodic cleanup removes every entry that has not been
\* accessed for more than the TTL and whose requests have all been answered
\* (so an idle entry is reclaimed by the first cleanup after its TTL)
C28_IdleEntryReclaimed ==
  [][(lastOp' = "cleanup" /\ calls' = calls + 1) =>
       \A i \in DOMAIN cache :
         (/\ now - cache[i].lastAccessed > ttlMs
          /\ \E r \in 1..MaxReq : req[r].slug = cache[i].slug
          /\ \A r \in 1..MaxReq :
               req[r].slug = cache[i].slug => req[r].pc = "replied")
           => ~has(cache', cache[i].slug)]_vars

\* C29: whenever no request is in flight the cache holds at most maxSize
\* entries
C29_SizeBoundedWhenQuiet ==
  (\A r \in 1..MaxReq : req[r].pc # "rendering") => Len(cache) <= maxSize

\* C30: availableWorkers holds every context at most once, and only
\* contexts whose thread is alive, that are not busy and hold no task; no
\* task is handed to a dead worker, and no context is given a task while the
\* one it holds is unsettled
C30_AvailableWorkersIdleAndLive ==
  /\ \A i, j \in DOMAIN availableWorkers :
       i # j => availableWorkers[i] # availableWorkers[j]
  /\ \A i \in DOMAIN availableWorkers :
       LET c == availableWorkers[i]
       IN  /\ thread[c].state = "running"
           /\ ~ctx[c].busy
           /\ ctx[c].currentTask = noTask
  /\ \A i \in DOMAIN dispatchLog : dispatchLog[i].live
  /\ \A c \in DOMAIN ctx : Cardinality(unsettledOn(c)) <= 1

\* the pool receives, in this step, the message at the head of the outbox of
\* worker c
delivered(c) ==
  /\ c \in DOMAIN thread
  /\ thread[c].outbox # <<>>
  /\ thread'[c].state = thread[c].state
  /\ thread'[c].outbox = Tail(thread[c].outbox)

\* C31: when the pool receives a worker's report that the render of task T
\* failed, T's promise is rejected and no other promise changes; the tasks of
\* the other workers stay as they are; the queue loses at most its head, and
\* the reporting worker holds that head afterwards or is idle
C31_FailureRejectsOnlyItsTask ==
  [][\A c \in DOMAIN thread :
       (/\ delivered(c)
        /\ Head(thread[c].outbox).type = "result"
        /\ ~Head(thread[c].outbox).success) =>
         LET T == Head(thread[c].outbox).task
         IN  /\ promise'[T].state = "rejected"
             /\ \A t \in DOMAIN promise :
                  t # T => promise'[t] = promise[t]
             /\ \A c2 \in DOMAIN ctx :
                  c2 # c => ctx'[c2].currentTask = ctx[c2].currentTask
             /\ IF taskQueue = <<>>
                THEN /\ taskQueue' = <<>>
                     /\ ctx'[c].currentTask = noTask
                     /\ ~ctx'[c].busy
                ELSE /\ taskQueue' = Tail(taskQueue)
                     /\ ctx'[c].currentTask = Head(taskQueue)
                     /\ ctx'[c].busy]_vars

\* C32: every submitted task is either in the queue, once, or was handed to
\* a worker, once and to one worker: a dispatched task is not in the queue
\* again and is not dispatched again, whatever failed in between
C32_DispatchedExactlyOnce ==
  /\ \A i, j \in DOMAIN taskQueue :
       taskQueue[i] = taskQueue[j] => i = j
  /\ \A i, j \in DOMAIN dispatchLog :
       dispatchLog[i].task = dispatchLog[j].task => i = j
  /\ \A t \in 1..totalTasks : (t \in queued) # dispatched(t)

\* C32 witness: all tasks were dispatched, one was rejected by a worker's
\* failure report and another by the crash of the worker holding it
C32_Witness ==
  /\ Len(dispatchLog) = MaxTasks
  /\ \E t \in heldAtCrash : promise[t].state = "rejected"
  /\ \E t \in DOMAIN promise :
       t \notin heldAtCrash /\ promise[t].state = "rejected"

\* C33: a worker's report on task T settles T with what it carries: a
\* failure report rejects T with an Error of the reported text, a success
\* report resolves T with the reported data; an 'error' event of a worker
\* holding T rejects T with the error of the event
C33_SettledWithReportedPayload ==
  [][\A c \in DOMAIN thread :
       /\ (delivered(c) /\ Head(thread[c].outbox).type = "result") =>
            LET T == Head(thread[c].outbox).task
            IN  IF Head(thread[c].outbox).success
                THEN /\ promise'[T].state = "fulfilled"
                     /\ promise'[T].value = T
                ELSE /\ promise'[T].state = "rejected"
                     /\ promise'[T].reason = Error(T)
       /\ (/\ thread[c].state = "running"
           /\ thread'[c].state = "errored"
           /\ ctx[c].currentTask # noTask) =>
            /\ promise'[ctx[c].currentTask].state = "rejected"
            /\ promise'[ctx[c].currentTask].reason = uncaught(c)]_vars

\* C34: the frame index the worker gives to the renderer lies in
\* [0, totalFrames - 1], for every frame number and every document
C34_FrameIndexInRange ==
  call.pc = "done" =>
    /\ call.frame >= 0
    /\ call.frame <= workerGetMetadata(call.animationData).totalFrames - 1

\* C35: for webp output the encoder is invoked for webp with the quality of
\* the task's options, in the native and in the fallback mode
C35_WebpQualityAsRequested ==
  (call.pc = "done" /\ call.options.format = "webp") =>
    /\ call.encoder.format = "webp"
    /\ call.encoder.quality = call.options.quality

\* C36: set on a key the cache holds removes nothing and changes no other
\* entry, also at or above capacity; the key's entry is replaced, where it
\* stands, by one with refCount 1, accessCount 1 and the timestamps now
C36_OverwriteLeavesOthers ==
  [][(/\ calls' = calls + 1
      /\ lastOp' = "set"
      /\ has(cache, lastArg')) =>
       LET k == indexOf(cache, lastArg')
       IN  /\ removed' = {}
           /\ Len(cache') = Len(cache)
           /\ \A i \in DOMAIN cache : i # k => cache'[i] = cache[i]
           /\ cache'[k].slug = lastArg'
           /\ cache'[k].refCount = 1
           /\ cache'[k].accessCount = 1
           /\ cache'[k].createdAt = now
           /\ cache'[k].lastAccessed = now]_vars

\* C36 witness: after a set the cache is at capacity or above and the entry
\* of the key stands first although it is newer than the entry behind it,
\* which is unreferenced: the set overwrote an entry without evicting
C36_Witness ==
  /\ lastOp = "set"
  /\ Len(cache) >= maxSize
  /\ cache[1].slug = lastArg
  /\ cache[1].createdAt > cache[2].createdAt
  /\ cache[2].refCount = 0

====
